---- MODULE Spec2Model ----
(***************************************************************************)
(* SwiftMeet booking backend (src/app.py): the services and slots tables,  *)
(* the auth decorators and the request handlers that read or change them.  *)
(* Time is in minutes.  Every handler is one atomic step.  For concurrent  *)
(* callers POST /api/bookings is also given in two steps, its read of the  *)
(* slot (db.session.get + the slot.booked test) and its commit, which      *)
(* SpecConc interleaves.                                                   *)
(* Columns that no handler ever reads back in a condition (names, e-mail,  *)
(* address, booked_by_name, booked_at, created_at) are left out.           *)
(***************************************************************************)
EXTENDS Integers, FiniteSets, TLC

\* ---------------------------------------------------------------- bounds
NumUsers == 3
NumAdmins == 2
MaxServices == 2
MaxSlots == 2
TimetableSlots == 3
MaxInFlight == 2
TickStep == 45
MaxNow == 90

\* the "time" of the request bodies of POST .../slots (minutes): NoTime is a
\* body without one, BadTime one that datetime.fromisoformat rejects
NoTime == 0 - 1
BadTime == 0 - 2
TimeInputs == {15, 60, NoTime, BadTime}
\* the times of the slots of a published timetable
SlotTimes == {15, 60, 105}

\* ------------------------------------------------------- program constants
fifteen_minutes == 15

\* ------------------------------------------------------------------ users
\* The users table is fixed: rows 1..NumUsers, the first NumAdmins registered
\* with role "admin", the others with role "user" (role is set at
\* registration and never changes).
Users == 1 .. NumUsers
Role(u) == IF u <= NumAdmins THEN "admin" ELSE "user"

\* a caller is the user id held by the session cookie, 0 when there is none
Callers == 0 .. NumUsers

VARIABLES services, slots, now, pending, resp

vars == <<services, slots, now, pending, resp>>

\* services : [set of service ids -> admin_id]
\* slots    : [set of slot ids -> Slot row]
\* now      : datetime.utcnow()
\* pending  : POST /api/bookings requests that have passed the slot.booked
\*            test and not yet committed
\* resp     : the last response: its HTTP status (0: a request still running)
\*            and the slot rows (id, status) its body carries

ServiceIds == 1 .. MaxServices
SlotIds == 1 .. MaxSlots

Max(S) == CHOOSE x \in S : \A y \in S : y <= x

\* SQLite INTEGER PRIMARY KEY without AUTOINCREMENT: the largest rowid + 1
NextId(S) == IF S = {} THEN 1 ELSE Max(S) + 1

Slot(sid, t) ==
  [service_id |-> sid, time |-> t, booked |-> FALSE, booked_by_id |-> 0,
   status |-> "available", auto_rescheduled |-> FALSE, arrived |-> FALSE]

Response(code, rows) == [code |-> code, rows |-> rows]

Rows(sl, ids) == {<<i, sl[i].status>> : i \in ids}

get_current_user(c) == IF c \in Users THEN c ELSE 0

login_required(c) == IF get_current_user(c) = 0 THEN 401 ELSE 0

admin_required(c) ==
  IF get_current_user(c) = 0 \/ Role(c) # "admin" THEN 403 ELSE 0

\* A request to an endpoint under @login_required, or under @admin_required,
\* that the wrapper answers itself: the handler is not called.
login_required_rejects(c) ==
  /\ login_required(c) # 0
  /\ resp' = Response(login_required(c), {})
  /\ UNCHANGED <<services, slots, now, pending>>

admin_required_rejects(c) ==
  /\ admin_required(c) # 0
  /\ resp' = Response(admin_required(c), {})
  /\ UNCHANGED <<services, slots, now, pending>>

Init ==
  /\ services = << >>
  /\ slots = << >>
  /\ now = 0
  /\ pending = {}
  /\ resp = Response(0, {})

Tick ==
  /\ now + TickStep <= MaxNow
  /\ now' = now + TickStep
  /\ UNCHANGED <<services, slots, pending, resp>>

\* -------------------------------------------------------- services (admin)
OwnedService(c, sid) == sid \in DOMAIN services /\ services[sid] = c

api_admin_create_service(c, valid) ==
  /\ admin_required(c) = 0
  /\ IF ~valid
       THEN resp' = Response(400, {}) /\ UNCHANGED services
     ELSE /\ NextId(DOMAIN services) \in ServiceIds
          /\ services' = [i \in DOMAIN services \cup {NextId(DOMAIN services)} |->
                            IF i \in DOMAIN services THEN services[i] ELSE c]
          /\ resp' = Response(201, {})
  /\ UNCHANGED <<slots, now, pending>>

\* mutant of DeleteSlotsOf: the service is deleted without its slots
DeleteSlotsOf_skipped(sl, gone) == sl

\* the rows left after Slot.query.filter_by(service_id in gone).delete()
DeleteSlotsOf(sl, gone) ==
  [i \in {j \in DOMAIN sl : sl[j].service_id \notin gone} |-> sl[i]]

DeleteServices(sv, gone) == [i \in DOMAIN sv \ gone |-> sv[i]]

api_admin_delete_service(c, sid) ==
  /\ admin_required(c) = 0
  /\ IF ~OwnedService(c, sid)
       THEN resp' = Response(404, {}) /\ UNCHANGED <<services, slots>>
     ELSE /\ slots' = DeleteSlotsOf(slots, {sid})
          /\ services' = DeleteServices(services, {sid})
          /\ resp' = Response(200, {})
  /\ UNCHANGED <<now, pending>>

api_admin_delete_all_services(c) ==
  /\ admin_required(c) = 0
  /\ LET mine == {s \in DOMAIN services : services[s] = c}
     IN /\ slots' = DeleteSlotsOf(slots, mine)
        /\ services' = DeleteServices(services, mine)
        /\ resp' = Response(200, {})
  /\ UNCHANGED <<now, pending>>

\* ----------------------------------------------------------- slots (admin)
api_admin_create_slot(c, sid, t) ==
  /\ admin_required(c) = 0
  /\ IF ~OwnedService(c, sid)
       THEN resp' = Response(404, {}) /\ UNCHANGED slots
     ELSE IF t = NoTime \/ t = BadTime \/ t <= now
       THEN resp' = Response(400, {}) /\ UNCHANGED slots
     ELSE /\ NextId(DOMAIN slots) \in SlotIds
          /\ slots' = [i \in DOMAIN slots \cup {NextId(DOMAIN slots)} |->
                         IF i \in DOMAIN slots THEN slots[i] ELSE Slot(sid, t)]
          /\ resp' = Response(201, {})
  /\ UNCHANGED <<services, now, pending>>

api_admin_delete_slot(c, sid, id) ==
  /\ admin_required(c) = 0
  /\ IF ~OwnedService(c, sid)
       THEN resp' = Response(404, {}) /\ UNCHANGED slots
     ELSE IF ~(id \in DOMAIN slots /\ slots[id].service_id = sid)
       THEN resp' = Response(404, {}) /\ UNCHANGED slots
     ELSE /\ slots' = [i \in DOMAIN slots \ {id} |-> slots[i]]
          /\ resp' = Response(200, {})
  /\ UNCHANGED <<services, now, pending>>

\* ---------------------------------------------------------------- bookings
\* Slot.service_id == service_id, Slot.booked.is_(False), Slot.time > now
FreeFuture(sl, sid) ==
  {i \in DOMAIN sl : sl[i].service_id = sid /\ ~sl[i].booked /\ sl[i].time > now}

\* mutant of EarliestOf: the order is descending
EarliestOf_desc(sl, S) == {i \in S : \A j \in S : sl[i].time >= sl[j].time}

\* .order_by(Slot.time.asc()).first() over the rows S: a row of least time
\* (which one among rows of equal time is left to the database)
EarliestOf(sl, S) == {i \in S : \A j \in S : sl[i].time <= sl[j].time}

\* the values next_slot can take, 0 standing for None
NextSlotChoices(sl, sid) ==
  IF FreeFuture(sl, sid) = {} THEN {0} ELSE EarliestOf(sl, FreeFuture(sl, sid))

\* the slots table after _find_and_book_next_slot(user, service_id, old_slot,
\* auto=auto) whose query returned next_slot = nxt
find_and_book_next_slot(sl, u, old, auto, nxt) ==
  [i \in DOMAIN sl |->
     IF i = nxt
       THEN [sl[i] EXCEPT !.booked = TRUE, !.booked_by_id = u,
                          !.status = "booked", !.auto_rescheduled = auto]
     ELSE IF i = old
       THEN [sl[i] EXCEPT !.status = "no-show"]
     ELSE sl[i]]

\* the response of POST /api/bookings when it returns before its assignments,
\* 0 when it goes on to them; slot_id 0 is a body without slot_id
book_check(sl, id) ==
  IF id = 0 THEN 400
  ELSE IF id \notin DOMAIN sl \/ sl[id].booked THEN 400
  ELSE 0

\* mutant of book_commit: the booker's id is not stored
book_commit_no_owner(sl, u, id) ==
  [sl EXCEPT ![id] = [@ EXCEPT !.booked = TRUE, !.status = "booked"]]

\* the assignments of POST /api/bookings and their commit: the UPDATE carries
\* the columns the handler changed (booked, booked_by_id, status) and is keyed
\* by the slot id alone
book_commit(sl, u, id) ==
  [sl EXCEPT ![id] = [@ EXCEPT !.booked = TRUE, !.booked_by_id = u,
                               !.status = "booked"]]

\* POST /api/bookings run from start to end with no other request in between
api_book_slot(c, id) ==
  /\ login_required(c) = 0
  /\ IF book_check(slots, id) # 0
       THEN resp' = Response(book_check(slots, id), {}) /\ UNCHANGED slots
       ELSE /\ slots' = book_commit(slots, c, id)
            /\ resp' = Response(200, {})
  /\ UNCHANGED <<services, now, pending>>

\* POST /api/bookings, first half: up to and including the slot.booked test
api_book_slot_read(c, id) ==
  /\ login_required(c) = 0
  /\ IF book_check(slots, id) # 0
       THEN resp' = Response(book_check(slots, id), {}) /\ UNCHANGED pending
       ELSE /\ Cardinality(pending) < MaxInFlight
            /\ [user |-> c, slot |-> id] \notin pending
            /\ pending' = pending \cup {[user |-> c, slot |-> id]}
            /\ resp' = Response(0, {})
  /\ UNCHANGED <<services, slots, now>>

\* POST /api/bookings, second half: the assignments and db.session.commit();
\* when the row is gone the UPDATE matches nothing, the commit raises and the
\* request ends with a 500
api_book_slot_commit(p) ==
  /\ p \in pending
  /\ pending' = pending \ {p}
  /\ IF p.slot \in DOMAIN slots
       THEN /\ slots' = book_commit(slots, p.user, p.slot)
            /\ resp' = Response(200, {})
       ELSE /\ resp' = Response(500, {})
            /\ UNCHANGED slots
  /\ UNCHANGED <<services, now>>

\* mutant of Missed: the filter on the booker (Slot.booked_by_id == user.id)
\* is lost
Missed_any_user(sl, u, auto) ==
  {i \in DOMAIN sl :
     /\ sl[i].service_id \in DOMAIN services
     /\ sl[i].booked_by_id # 0
     /\ sl[i].status = "booked"
     /\ ~sl[i].arrived
     /\ sl[i].time + fifteen_minutes < now
     /\ sl[i].auto_rescheduled = auto}

\* the filter shared by second_misses and missed_candidate (Slot joined with
\* Service), for the given value of auto_rescheduled
Missed(sl, u, auto) ==
  {i \in DOMAIN sl :
     /\ sl[i].service_id \in DOMAIN services
     /\ sl[i].booked_by_id = u
     /\ sl[i].status = "booked"
     /\ ~sl[i].arrived
     /\ sl[i].time + fifteen_minutes < now
     /\ sl[i].auto_rescheduled = auto}

MarkNoShow(sl, S) ==
  [i \in DOMAIN sl |-> IF i \in S THEN [sl[i] EXCEPT !.status = "no-show"] ELSE sl[i]]

\* the final query of GET /api/bookings
Bookings(sl, u) ==
  {i \in DOMAIN sl : sl[i].service_id \in DOMAIN services /\ sl[i].booked_by_id = u}

\* mutant of api_list_user_bookings: no first pass, and the candidate is
\* taken among the missed slots whatever their auto_rescheduled
api_list_user_bookings_again(c) ==
  /\ login_required(c) = 0
  /\ LET cands == Missed(slots, c, TRUE) \cup Missed(slots, c, FALSE)
          IN IF cands = {}
               THEN /\ slots' = slots
                    /\ resp' = Response(200, Rows(slots', Bookings(slots', c)))
               ELSE \E old \in EarliestOf(slots, cands) :
                      \E nxt \in NextSlotChoices(slots, slots[old].service_id) :
                        /\ slots' = find_and_book_next_slot(slots, c, old, TRUE, nxt)
                        /\ resp' = Response(200, Rows(slots', Bookings(slots', c)))
  /\ UNCHANGED <<services, now, pending>>

\* mutant of api_list_user_bookings: every missed slot that was never
\* auto-rescheduled is marked no-show, before the earliest is rescheduled
api_list_user_bookings_sweep(c) ==
  /\ login_required(c) = 0
  /\ LET sl1 == MarkNoShow(slots, Missed(slots, c, TRUE))
              cands == Missed(sl1, c, FALSE)
              sl2 == MarkNoShow(sl1, cands)
          IN IF cands = {}
               THEN /\ slots' = sl1
                    /\ resp' = Response(200, Rows(slots', Bookings(slots', c)))
               ELSE \E old \in EarliestOf(sl1, cands) :
                      \E nxt \in NextSlotChoices(sl1, sl1[old].service_id) :
                        /\ slots' = find_and_book_next_slot(sl2, c, old, TRUE, nxt)
                        /\ resp' = Response(200, Rows(slots', Bookings(slots', c)))
  /\ UNCHANGED <<services, now, pending>>

api_list_user_bookings(c) ==
  /\ login_required(c) = 0
  /\ LET sl1 == MarkNoShow(slots, Missed(slots, c, TRUE))
              cands == Missed(sl1, c, FALSE)
          IN IF cands = {}
               THEN /\ slots' = sl1
                    /\ resp' = Response(200, Rows(slots', Bookings(slots', c)))
               ELSE \E old \in EarliestOf(sl1, cands) :
                      \E nxt \in NextSlotChoices(sl1, sl1[old].service_id) :
                        /\ slots' = find_and_book_next_slot(sl1, c, old, TRUE, nxt)
                        /\ resp' = Response(200, Rows(slots', Bookings(slots', c)))
  /\ UNCHANGED <<services, now, pending>>

MarkArrived(sl, id) ==
  [sl EXCEPT ![id] = [@ EXCEPT !.status = "arrived", !.arrived = TRUE]]

api_mark_arrived(c, id) ==
  /\ login_required(c) = 0
  /\ IF ~(id \in DOMAIN slots /\ slots[id].booked_by_id = c)
       THEN resp' = Response(404, {}) /\ UNCHANGED slots
     ELSE /\ slots' = MarkArrived(slots, id)
          /\ resp' = Response(200, {})
  /\ UNCHANGED <<services, now, pending>>

api_find_next_slot(c, id) ==
  /\ login_required(c) = 0
  /\ IF ~(id \in DOMAIN slots /\ slots[id].booked_by_id = c)
       THEN resp' = Response(404, {}) /\ UNCHANGED slots
     ELSE \E nxt \in NextSlotChoices(slots, slots[id].service_id) :
            /\ slots' = find_and_book_next_slot(slots, c, id, FALSE, nxt)
            /\ resp' = Response(200, Rows(slots', {nxt} \ {0}))
  /\ UNCHANGED <<services, now, pending>>

\* mutant of api_admin_mark_arrived: no test of slot.booked
api_admin_mark_arrived_unchecked(c, id) ==
  /\ admin_required(c) = 0
  /\ IF id \notin DOMAIN slots
       THEN resp' = Response(404, {}) /\ UNCHANGED slots
     ELSE /\ slots' = MarkArrived(slots, id)
          /\ resp' = Response(200, {})
  /\ UNCHANGED <<services, now, pending>>

api_admin_mark_arrived(c, id) ==
  /\ admin_required(c) = 0
  /\ IF id \notin DOMAIN slots \/ ~slots[id].booked
       THEN resp' = Response(404, {}) /\ UNCHANGED slots
     ELSE /\ slots' = MarkArrived(slots, id)
          /\ resp' = Response(200, {})
  /\ UNCHANGED <<services, now, pending>>

\* ----------------------------------------------------------- specification
\* Spec: every handler, one request at a time, from the empty database.
Next ==
  \/ Tick
  \/ \E c \in Callers : login_required_rejects(c)
  \/ \E c \in Callers : admin_required_rejects(c)
  \/ \E c \in Callers, valid \in BOOLEAN : api_admin_create_service(c, valid)
  \/ \E c \in Callers, sid \in ServiceIds : api_admin_delete_service(c, sid)
  \/ \E c \in Callers : api_admin_delete_all_services(c)
  \/ \E c \in Callers, sid \in ServiceIds, t \in TimeInputs : api_admin_create_slot(c, sid, t)
  \/ \E c \in Callers, sid \in ServiceIds, id \in SlotIds : api_admin_delete_slot(c, sid, id)
  \/ \E c \in Callers, id \in SlotIds : api_admin_mark_arrived(c, id)
  \/ \E c \in Callers, id \in {0} \cup SlotIds : api_book_slot(c, id)
  \/ \E c \in Callers : api_list_user_bookings(c)
  \/ \E c \in Callers, id \in SlotIds : api_mark_arrived(c, id)
  \/ \E c \in Callers, id \in SlotIds : api_find_next_slot(c, id)

Spec == Init /\ [][Next]_vars

\* SpecConc: requests of several callers in flight at once: POST /api/bookings
\* in its two steps, between which any other step may run.
NextConc ==
  \/ \E c \in Callers : login_required_rejects(c)
  \/ \E c \in Callers : admin_required_rejects(c)
  \/ \E c \in Callers, valid \in BOOLEAN : api_admin_create_service(c, valid)
  \/ \E c \in Callers, sid \in ServiceIds, t \in TimeInputs : api_admin_create_slot(c, sid, t)
  \/ \E c \in Callers, sid \in ServiceIds, id \in SlotIds : api_admin_delete_slot(c, sid, id)
  \/ \E c \in Callers, id \in SlotIds : api_admin_mark_arrived(c, id)
  \/ \E c \in Callers, id \in {0} \cup SlotIds : api_book_slot_read(c, id)
  \/ \E p \in pending : api_book_slot_commit(p)
  \/ \E c \in Callers, id \in SlotIds : api_mark_arrived(c, id)

SpecConc == Init /\ [][NextConc]_vars

\* SpecTimetable: the users' side of the system once the admins have
\* published their slots: every service exists, TimetableSlots free slots are
\* on offer, the first of them the earliest one and in service 1.  The
\* callers are no session, the last admin and the plain users.
TimetableIds == 1 .. TimetableSlots

TimetableCallers == {0} \cup (NumAdmins .. NumUsers)

InitTimetable ==
  /\ services = [sid \in ServiceIds |-> ((sid - 1) % NumAdmins) + 1]
  /\ slots \in {tt \in [TimetableIds -> {Slot(sid, t) : sid \in ServiceIds, t \in SlotTimes}] :
                  /\ tt[1] = Slot(1, 15)
                  /\ \A i \in TimetableIds \ {1} : tt[i].time > 15}
  /\ now = 0
  /\ pending = {}
  /\ resp = Response(0, {})

NextTimetable ==
  \/ Tick
  \/ \E c \in TimetableCallers : login_required_rejects(c)
  \/ \E c \in TimetableCallers : admin_required_rejects(c)
  \/ \E c \in TimetableCallers, id \in TimetableIds : api_admin_mark_arrived(c, id)
  \/ \E c \in TimetableCallers, id \in {0} \cup TimetableIds : api_book_slot(c, id)
  \/ \E c \in TimetableCallers : api_list_user_bookings(c)
  \/ \E c \in TimetableCallers, id \in TimetableIds : api_mark_arrived(c, id)
  \/ \E c \in TimetableCallers, id \in TimetableIds : api_find_next_slot(c, id)

SpecTimetable == InitTimetable /\ [][NextTimetable]_vars

\* SpecLazy: signed-in callers who keep listing their bookings.  The
\* timetable is in the order of its times, one slot at each of them (any
\* further slot at the last), the first in service 1, the others in any
\* service; the requests are those of SpecTimetable's
\* signed-in callers that reach their handler; each caller's GET /api/bookings
\* is taken again whenever it stays able to change something.
TimetableUsers == TimetableCallers \ {0}

InitLazy ==
  /\ InitTimetable
  /\ \A i, j \in TimetableIds :
       i < j => IF j <= Cardinality(SlotTimes)
                  THEN slots[i].time < slots[j].time
                  ELSE slots[i].time <= slots[j].time

NextLazy ==
  \/ Tick
  \/ \E c \in TimetableUsers, id \in TimetableIds : api_admin_mark_arrived(c, id)
  \/ \E c \in TimetableUsers, id \in TimetableIds : api_book_slot(c, id)
  \/ \E c \in TimetableUsers : api_list_user_bookings(c)
  \/ \E c \in TimetableUsers, id \in TimetableIds : api_mark_arrived(c, id)
  \/ \E c \in TimetableUsers, id \in TimetableIds : api_find_next_slot(c, id)

SpecLazy ==
  /\ InitLazy
  /\ [][NextLazy]_vars
  /\ \A c \in TimetableUsers : WF_vars(api_list_user_bookings(c))

\* ------------------------------------------------------------------ claims
\* what the claims call a missed slot: status 'booked', not arrived, scheduled
\* time + 15 minutes < now
IsMissed(r) == r.status = "booked" /\ ~r.arrived /\ r.time + 15 < now

\* C1: booking an already-booked slot always fails: a POST /api/bookings whose
\* commit finds the slot booked by an earlier request does not answer 200, so
\* that of the concurrent bookers of one free slot exactly one succeeds.
C1_BookedSlotIsRefused ==
  [][\A p \in pending :
       (api_book_slot_commit(p) /\ resp'.code = 200) => ~slots[p.slot].booked]_vars

\* C2: in every reachable state every slot has booked = TRUE exactly when its
\* booked_by_id is not null.
C2_BookedIffBookedBy ==
  \A i \in DOMAIN slots : slots[i].booked <=> slots[i].booked_by_id # 0

\* C2's case: a reschedule has moved a booking (an old slot 'no-show', another
\* slot booked by the automatic path), both rows still carrying their booker.
C2_Witness ==
  \E i, j \in DOMAIN slots :
    /\ slots[i].status = "no-show" /\ slots[i].booked
    /\ slots[j].status = "booked" /\ slots[j].auto_rescheduled
    /\ slots[j].booked_by_id = slots[i].booked_by_id
    /\ slots[j].booked_by_id # 0

\* the caller's missed slots with the given auto_rescheduled, before the step
MissedBy(u, auto) ==
  {i \in DOMAIN slots : /\ slots[i].booked_by_id = u
                        /\ slots[i].auto_rescheduled = auto
                        /\ IsMissed(slots[i])}

\* the slots a step books: unbooked before it, booked after it
NewlyBooked == {i \in DOMAIN slots : ~slots[i].booked /\ slots'[i].booked}

\* C3: a GET /api/bookings sets every missed auto-rescheduled slot of the
\* caller to 'no-show' and runs no reschedule for it: the listing books at most
\* one slot, and only as the replacement of a missed slot of the caller that
\* was never auto-rescheduled.
C3_NoSecondReschedule ==
  [][\A c \in Users :
       api_list_user_bookings(c) =>
         /\ \A i \in MissedBy(c, TRUE) :
              slots'[i] = [slots[i] EXCEPT !.status = "no-show"]
         /\ Cardinality(NewlyBooked) <= 1
         /\ \A n \in NewlyBooked :
              \E old \in MissedBy(c, FALSE) :
                /\ slots[old].service_id = slots[n].service_id
                /\ slots'[old].status = "no-show"]_vars

\* C3's case: a listing has answered with an auto-rescheduled slot that was
\* missed again, now 'no-show', while a future slot of its service is free.
C3_Witness ==
  \E i, j \in DOMAIN slots :
    /\ slots[i].auto_rescheduled /\ slots[i].status = "no-show"
    /\ ~slots[i].arrived /\ slots[i].time + 15 < now
    /\ resp.code = 200 /\ <<i, "no-show">> \in resp.rows
    /\ slots[j].service_id = slots[i].service_id
    /\ ~slots[j].booked /\ slots[j].time > now

\* what the claim says of one run of the reschedule algorithm that starts
\* from the table pre, for user u, old slot old and flag auto, and ends in
\* the table slots'
Rescheduled(pre, u, old, auto) ==
  LET free == {i \in DOMAIN pre : /\ pre[i].service_id = pre[old].service_id
                                  /\ ~pre[i].booked
                                  /\ pre[i].time > now}
  IN /\ DOMAIN slots' = DOMAIN pre
     /\ slots'[old] = [pre[old] EXCEPT !.status = "no-show"]
     /\ IF free = {}
          THEN \A k \in DOMAIN pre \ {old} : slots'[k] = pre[k]
          ELSE \E n \in free :
                 /\ \A j \in free : pre[n].time <= pre[j].time
                 /\ slots'[n] = [pre[n] EXCEPT !.booked = TRUE, !.booked_by_id = u,
                                               !.status = "booked",
                                               !.auto_rescheduled = auto]
                 /\ \A k \in DOMAIN pre \ {old, n} : slots'[k] = pre[k]

\* the table a listing by u hands to the algorithm: the second misses marked
AfterFirstPass(u) ==
  [i \in DOMAIN slots |->
     IF i \in MissedBy(u, TRUE) THEN [slots[i] EXCEPT !.status = "no-show"] ELSE slots[i]]

\* C4: a run of the reschedule algorithm sets the old slot 'no-show'; when the
\* old slot's service has a free future slot, an earliest one is booked for the
\* user with auto_rescheduled = auto and nothing else changes; when it has
\* none, nothing else changes.  The manual path (auto = FALSE) answers 200 with
\* the new slot, or with no slot when there is none; the listing path runs it
\* with auto = TRUE.
C4_RescheduleAlgorithm ==
  [][/\ \A c \in Users, id \in DOMAIN slots :
          (api_find_next_slot(c, id) /\ slots[id].booked_by_id = c) =>
            /\ Rescheduled(slots, c, id, FALSE)
            /\ resp'.code = 200
            /\ resp'.rows = {<<n, "booked">> : n \in NewlyBooked}
     /\ \A c \in Users :
          (api_list_user_bookings(c) /\ MissedBy(c, FALSE) # {}) =>
            \E old \in MissedBy(c, FALSE) :
              Rescheduled(AfterFirstPass(c), c, old, TRUE)]_vars

\* C4's case: find-next-slot has just answered with the slot it booked, the
\* old slot is 'no-show', and a later future slot of the service is still free
\* (the algorithm had two candidates and took the earlier).
C4_Witness ==
  \E old, n, m \in DOMAIN slots :
    /\ resp = Response(200, {<<n, "booked">>})
    /\ slots[old].status = "no-show" /\ slots[old].booked_by_id # 0
    /\ slots[n].booked_by_id = slots[old].booked_by_id
    /\ slots[n].status = "booked" /\ ~slots[n].auto_rescheduled
    /\ slots[n].service_id = slots[old].service_id
    /\ slots[m].service_id = slots[old].service_id
    /\ ~slots[m].booked /\ slots[m].time > slots[n].time /\ slots[n].time > now

\* C5: every slot refers to an existing service; a delete of a service by the
\* admin who owns it (single or bulk) removes the service and all its slots
\* and nothing else; a single delete by an admin who does not own the service
\* answers 404 and deletes nothing.
C5_ServiceDeleteCascades ==
  /\ [](\A i \in DOMAIN slots : slots[i].service_id \in DOMAIN services)
  /\ [][/\ \A c \in Users, sid \in ServiceIds :
             (Role(c) = "admin" /\ api_admin_delete_service(c, sid)) =>
               IF sid \in DOMAIN services /\ services[sid] = c
                 THEN /\ DOMAIN services' = DOMAIN services \ {sid}
                      /\ DOMAIN slots' = {i \in DOMAIN slots : slots[i].service_id # sid}
                      /\ \A i \in DOMAIN slots' : slots'[i] = slots[i]
                 ELSE resp'.code = 404 /\ UNCHANGED <<services, slots>>
        /\ \A c \in Users :
             (Role(c) = "admin" /\ api_admin_delete_all_services(c)) =>
               /\ DOMAIN services' = {s \in DOMAIN services : services[s] # c}
               /\ DOMAIN slots' = {i \in DOMAIN slots : services[slots[i].service_id] # c}
               /\ \A i \in DOMAIN slots' : slots'[i] = slots[i]]_vars

\* C5's case: service 1 and slot 1 have been deleted with a 200, service 2 and
\* a slot of it remain.
C5_Witness ==
  /\ resp.code = 200
  /\ DOMAIN services = {2}
  /\ DOMAIN slots = {2}
  /\ slots[2].service_id = 2

\* C6: a request to a protected endpoint, user-level or admin-level, with no
\* session answers 401; a request to an admin endpoint by a user whose role is
\* not 'admin' answers 403; in both cases no row changes.
C6_AuthGate ==
  [][/\ (login_required_rejects(0) \/ admin_required_rejects(0)) =>
          (resp'.code = 401 /\ UNCHANGED <<services, slots>>)
     /\ \A c \in Users :
          (Role(c) # "admin" /\ admin_required_rejects(c)) =>
            (resp'.code = 403 /\ UNCHANGED <<services, slots>>)]_vars

\* C7: mark-arrived changes a slot only for its owner: the user endpoint for a
\* slot whose booked_by_id is the caller, the admin endpoint for a booked slot
\* of a service whose admin_id is the caller; otherwise it answers 404 and
\* leaves the slot as it is.
C7_MarkArrivedNeedsOwnership ==
  [][\A c \in Users, id \in SlotIds :
       /\ api_mark_arrived(c, id) =>
            IF id \in DOMAIN slots /\ slots[id].booked_by_id = c
              THEN slots'[id].status = "arrived" /\ slots'[id].arrived
              ELSE resp'.code = 404 /\ slots' = slots
       /\ (Role(c) = "admin" /\ api_admin_mark_arrived(c, id)) =>
            IF /\ id \in DOMAIN slots
               /\ slots[id].booked
               /\ services[slots[id].service_id] = c
              THEN slots'[id].status = "arrived" /\ slots'[id].arrived
              ELSE resp'.code = 404 /\ slots' = slots]_vars

\* C8: in every reachable state a slot with status 'arrived' has
\* arrived = TRUE and booked = TRUE.
C8_ArrivedImpliesFlags ==
  \A i \in DOMAIN slots :
    slots[i].status = "arrived" => (slots[i].arrived /\ slots[i].booked)

\* C8's case: the replacement slot of an automatic reschedule has been marked
\* arrived, next to the old slot it replaced.
C8_Witness ==
  \E i, j \in DOMAIN slots :
    /\ slots[i].status = "arrived" /\ slots[i].auto_rescheduled
    /\ slots[j].status = "no-show"
    /\ slots[j].booked_by_id = slots[i].booked_by_id

\* C9: one GET /api/bookings by c marks all of c's missed auto-rescheduled
\* slots 'no-show', turns 'no-show' exactly one of c's missed slots that were
\* never auto-rescheduled, an earliest one, and books at most one slot, with
\* auto_rescheduled = TRUE; c's other missed never-auto-rescheduled slots and
\* the slots booked by other users are left as they are; the bookings it
\* returns are c's rows as they are after these changes.
C9_OneReschedulePerListing ==
  [][\A c \in Users :
       api_list_user_bookings(c) =>
         /\ \A i \in MissedBy(c, TRUE) : slots'[i].status = "no-show"
         /\ MissedBy(c, FALSE) # {} =>
              \E old \in MissedBy(c, FALSE) :
                /\ \A k \in MissedBy(c, FALSE) : slots[old].time <= slots[k].time
                /\ slots'[old].status = "no-show"
                /\ \A k \in MissedBy(c, FALSE) \ {old} : slots'[k] = slots[k]
         /\ Cardinality(NewlyBooked) <= 1
         /\ \A n \in NewlyBooked :
              slots'[n].auto_rescheduled /\ slots'[n].booked_by_id = c
         /\ \A i \in DOMAIN slots :
              slots[i].booked_by_id \notin {0, c} => slots'[i] = slots[i]
         /\ resp'.code = 200
         /\ resp'.rows = {<<i, slots'[i].status>> :
                            i \in {k \in DOMAIN slots' : slots'[k].booked_by_id = c}}]_vars

\* C9's case: a listing has answered with three rows of the caller: the
\* earliest missed slot, now 'no-show', its automatic replacement, and a later
\* missed slot that is still 'booked'.
C9_Witness ==
  \E a, b, n \in DOMAIN slots :
    /\ resp = Response(200, {<<a, "no-show">>, <<b, "booked">>, <<n, "booked">>})
    /\ slots[a].status = "no-show" /\ ~slots[a].auto_rescheduled
    /\ slots[b].status = "booked" /\ ~slots[b].auto_rescheduled
    /\ IsMissed(slots[b]) /\ slots[a].time < slots[b].time
    /\ slots[n].status = "booked" /\ slots[n].auto_rescheduled /\ slots[n].time > now
    /\ slots[a].booked_by_id = slots[b].booked_by_id
    /\ slots[a].booked_by_id = slots[n].booked_by_id

\* C10: a slot's status only moves available -> booked -> {arrived, no-show}:
\* no step changes the status of a slot that is 'no-show' or 'arrived', and
\* no slot is ever 'cancelled'.
C10_StatusLifecycle ==
  [][\A i \in DOMAIN slots \cap DOMAIN slots' :
       /\ slots'[i].status # "cancelled"
       /\ \/ slots'[i].status = slots[i].status
          \/ slots[i].status = "available" /\ slots'[i].status = "booked"
          \/ slots[i].status = "booked" /\ slots'[i].status \in {"arrived", "no-show"}]_vars

\* the slots with status 'booked' that the table sl holds for user u
HeldBooked(sl, u) ==
  {i \in DOMAIN sl : sl[i].booked_by_id = u /\ sl[i].status = "booked"}

\* C11: a reschedule transfers a booking: neither a GET /api/bookings (the
\* automatic path) nor a POST /api/bookings/{id}/find-next-slot by c leaves c
\* with more slots of status 'booked' than c had before the request; so a
\* find-next-slot on an old slot that is already 'no-show' or 'arrived' books
\* nothing.
C11_RescheduleTransfersBooking ==
  [][\A c \in Users :
       /\ api_list_user_bookings(c) =>
            Cardinality(HeldBooked(slots', c)) <= Cardinality(HeldBooked(slots, c))
       /\ \A id \in DOMAIN slots :
            api_find_next_slot(c, id) =>
              Cardinality(HeldBooked(slots', c)) <= Cardinality(HeldBooked(slots, c))]_vars

\* slot i is held by u and missed
MissedSlot(u, i) ==
  i \in DOMAIN slots /\ slots[i].booked_by_id = u /\ IsMissed(slots[i])

\* slot i is gone or its status is no longer 'booked'
LeftBooked(i) == i \notin DOMAIN slots \/ slots[i].status # "booked"

\* every missed slot of a caller who keeps listing eventually leaves 'booked'
MissedIsReconciled ==
  \A u \in TimetableUsers, i \in TimetableIds : MissedSlot(u, i) ~> LeftBooked(i)

\* from some point on no listing changes a slot any more
ListingSettles ==
  <>[][\A c \in Users : slots' # slots => ~api_list_user_bookings(c)]_vars

\* the steps aimed at slot i of u other than u's listing: u's own mark-arrived
\* or find-next-slot for i, an admin's mark-arrived for i
AimedAt(u, i) ==
  \/ api_mark_arrived(u, i)
  \/ api_find_next_slot(u, i)
  \/ \E a \in Users : api_admin_mark_arrived(a, i)

\* C12 as stated: with weak fairness on the listing of each caller, every
\* missed slot of the caller eventually leaves status 'booked' and eventually
\* no listing changes the state any more; and a step that is not a listing by
\* the slot's holder leaves a missed slot 'booked'.
C12_LazyReconciliation ==
  /\ MissedIsReconciled
  /\ ListingSettles
  /\ [][\A u \in Users, i \in DOMAIN slots :
          (MissedSlot(u, i) /\ LeftBooked(i)') => api_list_user_bookings(u)]_vars

\* C12 amended: as above, but the status of a missed slot leaves 'booked'
\* only in a step that is a listing by its holder or a mark-arrived or
\* find-next-slot request for that slot: nothing else (time passing, other
\* callers' requests, requests for other slots) reconciles it.
C12_LazyReconciliationAmended ==
  /\ MissedIsReconciled
  /\ ListingSettles
  /\ [][\A u \in Users, i \in DOMAIN slots :
          (MissedSlot(u, i) /\ i \in DOMAIN slots' /\ slots'[i].status # "booked") =>
            (api_list_user_bookings(u) \/ AimedAt(u, i))]_vars

\* C12's case: a caller's listings have reconciled two missed slots that were
\* never auto-rescheduled (one per listing): both are 'no-show', no slot of
\* the caller is missed any more, and the last response is the caller's
\* listing of the rows as they are now.
C12_Witness ==
  \E u \in TimetableUsers :
    /\ resp = Response(200, Rows(slots, Bookings(slots, u)))
    /\ \A i \in DOMAIN slots : ~MissedSlot(u, i)
    /\ \E a, b \in DOMAIN slots :
         /\ a # b
         /\ \A k \in {a, b} :
              /\ slots[k].booked_by_id = u /\ slots[k].status = "no-show"
              /\ ~slots[k].auto_rescheduled /\ ~slots[k].arrived
              /\ slots[k].time + 15 < now

====
